---- MODULE Spec2Model ----
(***************************************************************************)
(* Rescale calibration of nequip/scripts/train.py: fresh_start and its     *)
(* helpers pop_per_species, get_per_species and set_value.                 *)
(*                                                                         *)
(* Python values are records [t, n, s]: t is the Python type, n the        *)
(* numeric payload (a sequence of rationals <<num, den>>, den > 0; one     *)
(* entry for a scalar) and s the characters of a string.                   *)
(***************************************************************************)
EXTENDS Integers, Sequences, FiniteSets, TLC

\* ------------------------------------------------------------------ bounds
\* dataset.type_mapper.num_types of the stub dataset: the length of every
\* per-species vector.
NumTypes == 2

\* ---------------------------------------------------------------- numbers
RECURSIVE GCD(_, _)
GCD(a, b) == IF b = 0 THEN a ELSE GCD(b, a % b)

Abs(a) == IF a < 0 THEN -a ELSE a

\* the rational a/b in lowest terms with a positive denominator
Rat(a, b) ==
    LET g == GCD(Abs(a), Abs(b))
        sg == IF b < 0 THEN -1 ELSE 1
    IN  << (sg * a) \div g, (sg * b) \div g >>

\* x < y on rationals (Python / torch `<`)
Lt(x, y) == x[1] * y[2] < y[1] * x[2]

\* x / y on rationals (Python / torch true division), y nonzero
DivRat(x, y) == Rat(x[1] * y[2], x[2] * y[1])

\* RESCALE_THRESHOLD = 1e-6
RESCALE_THRESHOLD == Rat(1, 1000000)

\* ----------------------------------------------------------------- values
PyNone == [t |-> "none", n |-> <<>>, s |-> <<>>]
PyFloat(q) == [t |-> "float", n |-> <<q>>, s |-> <<>>]
PyInt(i) == [t |-> "int", n |-> <<Rat(i, 1)>>, s |-> <<>>]
PyBool(b) == [t |-> "bool", n |-> <<Rat(IF b THEN 1 ELSE 0, 1)>>, s |-> <<>>]
PyTensor(qs) == [t |-> "tensor", n |-> qs, s |-> <<>>]
PyStr(cs) == [t |-> "str", n |-> <<>>, s |-> cs]

\* Python truthiness, as used by `and` on line 167 and `if` on line 235
Truthy(v) ==
    CASE v.t = "none" -> FALSE
      [] v.t = "str" -> Len(v.s) > 0
      [] v.t = "tensor" -> v.n[1][1] # 0
      [] OTHER -> v.n[1][1] # 0

\* ---------------------------------------------------------------- strings
cs_dataset == <<"d","a","t","a","s","e","t">>
cs_dataset_ == <<"d","a","t","a","s","e","t","_">>
cs_force_rms == <<"f","o","r","c","e","_","r","m","s">>
cs_energy_mean == <<"e","n","e","r","g","y","_","m","e","a","n">>
cs_energy_std == <<"e","n","e","r","g","y","_","s","t","d">>
cs_per_species_energy_mean ==
    <<"p","e","r","_","s","p","e","c","i","e","s","_","e","n","e","r","g","y","_","m","e","a","n">>
cs_per_species_energy_std ==
    <<"p","e","r","_","s","p","e","c","i","e","s","_","e","n","e","r","g","y","_","s","t","d">>

\* str.startswith
startswith(cs, prefix) ==
    /\ Len(cs) >= Len(prefix)
    /\ SubSeq(cs, 1, Len(prefix)) = prefix

\* the slice cs[k:]
SliceFrom(cs, k) == IF k >= Len(cs) THEN <<>> ELSE SubSeq(cs, k + 1, Len(cs))

\* the keys of dataset_statistics (lines 190, 197, 198, 208, 209)
dataset_force_rms == cs_dataset_ \o cs_force_rms
dataset_energy_mean == cs_dataset_ \o cs_energy_mean
dataset_energy_std == cs_dataset_ \o cs_energy_std
dataset_per_species_energy_mean == cs_dataset_ \o cs_per_species_energy_mean
dataset_per_species_energy_std == cs_dataset_ \o cs_per_species_energy_std

\* ------------------------------------------------------------ the mapping
\* A Config / dict is a function whose DOMAIN is the set of present keys.
DictGet(d, k, default) == IF k \in DOMAIN d THEN d[k] ELSE default

DictDel(d, k) == [x \in (DOMAIN d) \ {k} |-> d[x]]

DictSet(d, k, v) == [x \in (DOMAIN d) \cup {k} |-> IF x = k THEN v ELSE d[x]]

EmptyDict == [x \in {} |-> PyNone]

PreferredKey(key) == "PerSpeciesScaleShift_" \o key

FallbackKey(key) == "per_species_scale_shift_" \o key

\* get_per_species with the precedence of the two spellings exchanged
get_per_species_FallbackFirst(config, key, default) ==
    DictGet(config, FallbackKey(key), DictGet(config, PreferredKey(key), default))

\* get_per_species(config, key, default): the returned value
get_per_species(config, key, default) ==
    DictGet(config, PreferredKey(key), DictGet(config, FallbackKey(key), default))

\* pop_per_species(config, key, default): the returned value.  The inner pop
\* is an argument of the outer one, so it is evaluated (and removes its key)
\* first; the value it returns is the outer pop's default.
pop_per_species(config, key, default) ==
    DictGet(config, PreferredKey(key), DictGet(config, FallbackKey(key), default))

\* pop_per_species whose inner lookup is a get: the fallback spelling stays
pop_per_species_config_PreferredOnly(config, key) ==
    DictDel(config, PreferredKey(key))

\* pop_per_species(config, key, default): the configuration it leaves
pop_per_species_config(config, key) ==
    DictDel(DictDel(config, FallbackKey(key)), PreferredKey(key))

\* set_value(variable, variable_name, value_dict): "ok" with the value
\* returned, or "ValueError" for `raise ValueError(f"Invalid ...")`
set_value(variable, variable_name, value_dict) ==
    IF variable.t = "str" /\ variable.s \in DOMAIN value_dict
    THEN [st |-> "ok", val |-> value_dict[variable.s], name |-> variable_name]
    ELSE IF variable.t \in {"none", "float", "tensor"}
         THEN [st |-> "ok", val |-> variable, name |-> variable_name]
         ELSE [st |-> "ValueError", val |-> PyNone, name |-> variable_name]

\* ------------------------------------------------------- tensor arithmetic
\* torch.min(t) of a tensor payload
RECURSIVE MinOf(_)
MinOf(qs) ==
    IF Len(qs) = 1 THEN qs[1]
    ELSE LET m == MinOf(Tail(qs)) IN IF Lt(qs[1], m) THEN qs[1] ELSE m

\* x / y with broadcasting of a one-entry operand; the result is a tensor as
\* soon as one operand is a tensor (float / float stays a float)
Divide(x, y) ==
    LET len == IF Len(x.n) > Len(y.n) THEN Len(x.n) ELSE Len(y.n)
        at(v, i) == IF Len(v.n) = 1 THEN v.n[1] ELSE v.n[i]
        qs == [i \in 1..len |-> DivRat(at(x, i), at(y, i))]
    IN  IF x.t = "tensor" \/ y.t = "tensor" THEN PyTensor(qs) ELSE PyFloat(qs[1])

\* ----------------------------------------------- fresh_start, lines 144-258
\* line 148: train_on.issubset({"forces", "total_energy"})
SupportedTraining(train_on) == train_on \subseteq {"forces", "total_energy"}

\* the conflict check taking only a literal shift for a shift
Conflict_LiteralShiftOnly(gshift, enable) ==
    gshift.t = "float" /\ Truthy(enable)

\* line 167: global_shift is not None and per_species_scale_shift
Conflict(gshift, enable) == gshift # PyNone /\ Truthy(enable)

\* lines 174-175: the statistics key one slot contributes
SlotKeys(variable) ==
    IF variable.t = "str" /\ startswith(variable.s, cs_dataset)
    THEN {SliceFrom(variable.s, Len(cs_dataset_))}
    ELSE {}

\* lines 172-176: keys = list(set(keys))
RequiredKeys(gshift, gscale, sc, sh) ==
    SlotKeys(gshift) \cup SlotKeys(gscale) \cup SlotKeys(sc) \cup SlotKeys(sh)

\* the force_rms check looking for the unstripped placeholder
ForceRmsRejected_Unstripped(ks, ftrain) == dataset_force_rms \in ks /\ ~ftrain

\* line 177
ForceRmsRejected(ks, ftrain) == cs_force_rms \in ks /\ ~ftrain

\* lines 184, 191, 199: is the statistics call of a family made
NeedsForceRms(ks) == cs_force_rms \in ks

NeedsEnergy(ks) == cs_energy_std \in ks \/ cs_energy_mean \in ks

NeedsPerSpecies(ks) ==
    cs_per_species_energy_std \in ks \/ cs_per_species_energy_mean \in ks

\* line 228
GlobalScaleDegenerate(gscale) ==
    gscale.t = "float" /\ Lt(gscale.n[1], RESCALE_THRESHOLD)

\* line 237
GsOf(gscale) == IF gscale = PyNone THEN PyInt(1) ELSE gscale

\* the per-species values stored without the division by gs
Relative_Undivided(v, gs) == v

\* lines 254-255
Relative(v, gs) == IF v = PyNone THEN PyNone ELSE Divide(v, gs)

\* ------------------------------------------------------------------ inputs
q5e7 == Rat(1, 2000000)
q1 == Rat(1, 1)
q2 == Rat(2, 1)
q2_5 == Rat(5, 2)

\* per-species vectors of the stub dataset and of the configurations
VecEven == [i \in 1..NumTypes |-> Rat(2 + 2 * i, 1)]
VecEdge == [i \in 1..NumTypes |-> RESCALE_THRESHOLD]
VecLow == [i \in 1..NumTypes |-> IF i = NumTypes THEN q5e7 ELSE q2]
VecMean == [i \in 1..NumTypes |-> Rat(0 - i, 1)]

\* a string that starts with "dataset" but not with "dataset_"
datasetXenergy_std == cs_dataset \o <<"X">> \o cs_energy_std

Absent == [t |-> "absent", n |-> <<>>, s |-> <<>>]

\* values of config.loss_coeffs, as the set line 147 builds
LossCoeffs ==
    { {"forces", "total_energy"}, {"total_energy"}, {"total_energy", "stress"} }

ShiftInputs ==
    { Absent, PyNone, PyFloat(Rat(-1, 1)), PyStr(dataset_energy_mean),
      PyStr(dataset_force_rms) }

ScaleInputs ==
    { Absent, PyNone, PyFloat(q5e7), PyFloat(q2), PyInt(1), PyTensor(<<q5e7>>),
      PyStr(dataset_force_rms), PyStr(dataset_energy_std),
      PyStr(datasetXenergy_std) }

EnableInputs == { Absent, PyBool(TRUE), PyBool(FALSE) }

EnableFallbackInputs == { Absent, PyBool(TRUE) }

ScalesInputs ==
    { Absent, PyTensor(VecEven), PyTensor(VecEdge), PyTensor(VecLow),
      PyStr(dataset_per_species_energy_std), PyFloat(q2) }

ShiftsInputs ==
    { Absent, PyTensor(VecMean), PyStr(dataset_per_species_energy_mean),
      PyStr(dataset_force_rms) }

FallbackInputs == { Absent, PyTensor(VecEven) }

\* what the stub dataset's statistics() returns
RmsReturns == { PyTensor(<<q2_5>>), PyTensor(<<q5e7>>) }

EnergyReturns ==
    { <<PyTensor(<<Rat(-3, 1)>>), PyTensor(<<q2>>)>>,
      <<PyTensor(<<Rat(-3, 1)>>), PyFloat(q5e7)>> }

PerSpeciesReturns ==
    { <<PyTensor(VecMean), PyTensor(VecEven)>>,
      <<PyTensor(VecMean), PyTensor(VecLow)>> }

\* the configuration mapping holding the present entries of kvs
MkConfig(kvs) ==
    LET present == {i \in 1..Len(kvs) : kvs[i][2] # Absent}
    IN  [k \in {kvs[i][1] : i \in present} |->
            kvs[CHOOSE i \in present : kvs[i][1] = k][2]]

Families == {"force_rms", "energy", "per_species"}

\* ------------------------------------------------------------------- state
VARIABLES
    raw,                      \* the configuration fresh_start was called with
    config,                   \* the configuration, as mutated by the run
    loss_coeffs,              \* config.loss_coeffs
    pc,                       \* the position in fresh_start
    err,                      \* the exception that ended the run, or "none"
    err_name,                 \* variable_name of set_value's ValueError
    force_training,
    global_shift,
    global_scale,
    per_species_scale_shift,
    scales,
    shifts,
    sigma,
    keys,
    dataset_statistics,
    calls,                    \* statistics() calls made, per family
    returned,                 \* what each statistics() call returned
    core_model,
    final_model,
    config_final,             \* the content of config_final.yaml
    events,                   \* build / assemble / persist / train, in order
    h                         \* the call of a helper under test

vars == << raw, config, loss_coeffs, pc, err, err_name, force_training,
           global_shift, global_scale, per_species_scale_shift, scales, shifts,
           sigma, keys, dataset_statistics, calls, returned, core_model,
           final_model, config_final, events, h >>

locals == << force_training, global_shift, global_scale,
             per_species_scale_shift, scales, shifts, sigma >>

stats == << dataset_statistics, calls, returned >>

outputs == << core_model, final_model, config_final, events >>

Unset == [t |-> "unset", n |-> <<>>, s |-> <<>>]

NoHelper == [op |-> "none"]

Init ==
    /\ \E gsh \in ShiftInputs, gsc \in ScaleInputs,
          en1 \in EnableInputs, en2 \in EnableFallbackInputs,
          sc1 \in ScalesInputs, sc2 \in FallbackInputs,
          sh1 \in ShiftsInputs, sh2 \in FallbackInputs :
            raw = MkConfig(<<
                <<"global_rescale_shift", gsh>>,
                <<"global_rescale_scale", gsc>>,
                <<"PerSpeciesScaleShift_enable", en1>>,
                <<"per_species_scale_shift_enable", en2>>,
                <<"PerSpeciesScaleShift_scales", sc1>>,
                <<"per_species_scale_shift_scales", sc2>>,
                <<"PerSpeciesScaleShift_shifts", sh1>>,
                <<"per_species_scale_shift_shifts", sh2>>,
                <<"per_species_scale_shift_sigma", PyFloat(q1)>> >>)
    /\ config = raw
    /\ loss_coeffs \in LossCoeffs
    /\ pc = "training_type"
    /\ err = "none"
    /\ err_name = ""
    /\ force_training = FALSE
    /\ global_shift = Unset
    /\ global_scale = Unset
    /\ per_species_scale_shift = Unset
    /\ scales = Unset
    /\ shifts = Unset
    /\ sigma = Unset
    /\ keys = {}
    /\ dataset_statistics = EmptyDict
    /\ calls = [f \in Families |-> 0]
    /\ returned = EmptyDict
    /\ core_model = Unset
    /\ final_model = Unset
    /\ config_final = Unset
    /\ events = <<>>
    /\ h = NoHelper

\* raise: the exception propagates out of fresh_start
Raise(e) == pc' = "raised" /\ err' = e

\* lines 144-155: determine training type
DetermineTrainingType ==
    /\ pc = "training_type"
    /\ IF ~SupportedTraining(loss_coeffs)
       THEN /\ Raise("NotImplementedError")
            /\ UNCHANGED force_training
       ELSE /\ force_training' = ("forces" \in loss_coeffs)
            /\ pc' = "rescale_type"
            /\ UNCHANGED err
    /\ UNCHANGED << raw, config, loss_coeffs, err_name, global_shift,
                    global_scale, per_species_scale_shift, scales, shifts,
                    sigma, keys, stats, outputs, h >>

\* lines 157-169: determine energy rescale type
DetermineRescaleType ==
    /\ pc = "rescale_type"
    /\ LET gshift == DictGet(config, "global_rescale_shift",
                             PyStr(dataset_energy_mean))
           gscale == DictGet(config, "global_rescale_scale",
                             IF force_training THEN PyStr(dataset_force_rms)
                             ELSE PyStr(dataset_energy_std))
           enable == get_per_species(config, "enable", PyBool(FALSE))
           c1 == pop_per_species_config(config, "scales")
           c2 == pop_per_species_config(c1, "shifts")
           c3 == pop_per_species_config(c2, "sigma")
       IN  /\ global_shift' = gshift
           /\ global_scale' = gscale
           /\ per_species_scale_shift' = enable
           /\ scales' = pop_per_species(config, "scales", PyNone)
           /\ shifts' = pop_per_species(c1, "shifts", PyNone)
           /\ sigma' = pop_per_species(c2, "sigma", PyNone)
           /\ config' = c3
           /\ IF Conflict(gshift, enable)
              THEN Raise("conflict")
              ELSE pc' = "keys" /\ UNCHANGED err
    /\ UNCHANGED << raw, loss_coeffs, err_name, force_training, keys, stats,
                    outputs, h >>

\* lines 171-180: determine what statistics need to be computed
DetermineStatistics ==
    /\ pc = "keys"
    /\ keys' = RequiredKeys(global_shift, global_scale, scales, shifts)
    /\ IF ForceRmsRejected(keys', force_training)
       THEN Raise("force_rms")
       ELSE pc' = "stat_force_rms" /\ UNCHANGED err
    /\ UNCHANGED << raw, config, loss_coeffs, err_name, locals, stats,
                    outputs, h >>

\* lines 182-190: dataset_statistics = {} and the force statistics
CollectForceRms ==
    /\ pc = "stat_force_rms"
    /\ IF NeedsForceRms(keys)
       THEN \E rms \in RmsReturns :
            /\ dataset_statistics' = DictSet(EmptyDict, dataset_force_rms, rms)
            /\ calls' = [calls EXCEPT !["force_rms"] = @ + 1]
            /\ returned' = DictSet(returned, dataset_force_rms, rms)
       ELSE /\ dataset_statistics' = EmptyDict
            /\ UNCHANGED << calls, returned >>
    /\ pc' = "stat_energy"
    /\ UNCHANGED << raw, config, loss_coeffs, err, err_name, locals, keys,
                    outputs, h >>

\* the total-energy statistics with mean and std unpacked in the wrong order
CollectEnergy_Swapped ==
    /\ pc = "stat_energy"
    /\ IF NeedsEnergy(keys)
       THEN \E ms \in EnergyReturns :
            /\ dataset_statistics' =
                   DictSet(DictSet(dataset_statistics, dataset_energy_mean, ms[2]),
                           dataset_energy_std, ms[1])
            /\ calls' = [calls EXCEPT !["energy"] = @ + 1]
            /\ returned' = DictSet(DictSet(returned, dataset_energy_mean, ms[1]),
                                   dataset_energy_std, ms[2])
       ELSE UNCHANGED stats
    /\ pc' = "stat_per_species"
    /\ UNCHANGED << raw, config, loss_coeffs, err, err_name, locals, keys,
                    outputs, h >>

\* lines 191-198: the total-energy statistics
CollectEnergy ==
    /\ pc = "stat_energy"
    /\ IF NeedsEnergy(keys)
       THEN \E ms \in EnergyReturns :
            /\ dataset_statistics' =
                   DictSet(DictSet(dataset_statistics, dataset_energy_mean, ms[1]),
                           dataset_energy_std, ms[2])
            /\ calls' = [calls EXCEPT !["energy"] = @ + 1]
            /\ returned' = DictSet(DictSet(returned, dataset_energy_mean, ms[1]),
                                   dataset_energy_std, ms[2])
       ELSE UNCHANGED stats
    /\ pc' = "stat_per_species"
    /\ UNCHANGED << raw, config, loss_coeffs, err, err_name, locals, keys,
                    outputs, h >>

\* lines 199-209: the per-species energy statistics
CollectPerSpecies ==
    /\ pc = "stat_per_species"
    /\ IF NeedsPerSpecies(keys)
       THEN \E ms \in PerSpeciesReturns :
            /\ dataset_statistics' =
                   DictSet(DictSet(dataset_statistics,
                                   dataset_per_species_energy_mean, ms[1]),
                           dataset_per_species_energy_std, ms[2])
            /\ calls' = [calls EXCEPT !["per_species"] = @ + 1]
            /\ returned' =
                   DictSet(DictSet(returned,
                                   dataset_per_species_energy_mean, ms[1]),
                           dataset_per_species_energy_std, ms[2])
       ELSE UNCHANGED stats
    /\ pc' = "resolve_global"
    /\ UNCHANGED << raw, config, loss_coeffs, err, err_name, locals, keys,
                    outputs, h >>

\* lines 211-232: resolve the global shift and scale, validate the scale
ResolveGlobal ==
    /\ pc = "resolve_global"
    /\ LET r1 == set_value(global_shift, "global_shift", dataset_statistics)
           r2 == set_value(global_scale, "global_scale", dataset_statistics)
       IN  IF r1.st # "ok"
           THEN /\ Raise("invalid")
                /\ err_name' = r1.name
                /\ UNCHANGED << global_shift, global_scale >>
           ELSE /\ global_shift' = r1.val
                /\ IF r2.st # "ok"
                   THEN /\ Raise("invalid")
                        /\ err_name' = r2.name
                        /\ UNCHANGED global_scale
                   ELSE /\ global_scale' = r2.val
                        /\ UNCHANGED err_name
                        /\ IF GlobalScaleDegenerate(r2.val)
                           THEN Raise("degenerate_global")
                           ELSE pc' = "per_species" /\ UNCHANGED err
    /\ UNCHANGED << raw, config, loss_coeffs, force_training,
                    per_species_scale_shift, scales, shifts, sigma, keys,
                    stats, outputs, h >>

\* line 249: torch.min(scales) < RESCALE_THRESHOLD; torch.min of a value
\* that is not a tensor is a TypeError
ScalesDegenerate(sc) == Lt(MinOf(sc.n), RESCALE_THRESHOLD)

\* lines 234-258: determine per species scale/shift
DeterminePerSpecies ==
    /\ pc = "per_species"
    /\ IF ~Truthy(per_species_scale_shift)
       THEN /\ pc' = "build"
            /\ UNCHANGED << config, err, err_name, scales, shifts >>
       ELSE LET gs == GsOf(global_scale)
                r1 == set_value(scales, "per_species_scales", dataset_statistics)
                r2 == set_value(shifts, "per_species_shifts", dataset_statistics)
            IN  IF r1.st # "ok"
                THEN /\ Raise("invalid")
                     /\ err_name' = r1.name
                     /\ UNCHANGED << config, scales, shifts >>
                ELSE /\ scales' = r1.val
                     /\ IF r2.st # "ok"
                        THEN /\ Raise("invalid")
                             /\ err_name' = r2.name
                             /\ UNCHANGED << config, shifts >>
                        ELSE /\ shifts' = r2.val
                             /\ UNCHANGED err_name
                             /\ IF r1.val # PyNone /\ r1.val.t # "tensor"
                                THEN Raise("TypeError") /\ UNCHANGED config
                                ELSE IF r1.val # PyNone /\ ScalesDegenerate(r1.val)
                                THEN Raise("degenerate_atomic") /\ UNCHANGED config
                                ELSE /\ config' =
                                         DictSet(DictSet(config,
                                             "PerSpeciesScaleShift_scales",
                                             Relative(r1.val, gs)),
                                             "PerSpeciesScaleShift_shifts",
                                             Relative(r2.val, gs))
                                     /\ pc' = "build"
                                     /\ UNCHANGED err
    /\ UNCHANGED << raw, loss_coeffs, force_training, global_shift,
                    global_scale, per_species_scale_shift, sigma, keys, stats,
                    outputs, h >>

\* what core_model.irreps_out may declare besides the total energy
IrrepsOut == { {"total_energy"}, {"total_energy", "forces", "atomic_energy"} }

\* lines 260-268: model_builder(**dict(config)) and the initializers
BuildModel ==
    /\ pc = "build"
    /\ \E irreps \in IrrepsOut :
          core_model' = [kwargs |-> config, irreps_out |-> irreps]
    /\ events' = Append(events, "build")
    /\ pc' = "assemble"
    /\ UNCHANGED << raw, config, loss_coeffs, err, err_name, locals, keys,
                    stats, final_model, config_final, h >>

\* lines 270-302: RescaleOutput(model=core_model, ...)
AssembleModel ==
    /\ pc = "assemble"
    /\ final_model' =
          [ model |-> core_model,
            scale_keys |-> {"total_energy"}
                             \cup (core_model.irreps_out
                                     \cap {"forces", "atomic_energy"}),
            scale_by |-> global_scale,
            shift_keys |-> {"total_energy"},
            shift_by |-> global_shift ]
    /\ events' = Append(events, "assemble")
    /\ pc' = "record"
    /\ UNCHANGED << raw, config, loss_coeffs, err, err_name, locals, keys,
                    stats, core_model, config_final, h >>

\* the run going on to training without writing config_final.yaml
RecordConfig_Skipped ==
    /\ pc = "record"
    /\ pc' = "equivariance"
    /\ UNCHANGED << raw, config, loss_coeffs, err, err_name, locals, keys,
                    stats, outputs, h >>

\* lines 304-306: yaml.dump(dict(config)) to config_final.yaml
RecordConfig ==
    /\ pc = "record"
    /\ config_final' = config
    /\ events' = Append(events, "persist")
    /\ pc' = "equivariance"
    /\ UNCHANGED << raw, config, loss_coeffs, err, err_name, locals, keys,
                    stats, core_model, final_model, h >>

\* lines 308-316: the optional equivariance test, which asserts
EquivarianceTest ==
    /\ pc = "equivariance"
    /\ \E equivariance_test \in BOOLEAN, passes \in BOOLEAN :
          IF equivariance_test /\ ~passes
          THEN Raise("AssertionError")
          ELSE pc' = "train" /\ UNCHANGED err
    /\ UNCHANGED << raw, config, loss_coeffs, err_name, locals, keys, stats,
                    outputs, h >>

\* lines 318-324: trainer.model = final_model; trainer.train()
Train ==
    /\ pc = "train"
    /\ events' = Append(events, "train")
    /\ pc' = "done"
    /\ UNCHANGED << raw, config, loss_coeffs, err, err_name, locals, keys,
                    stats, core_model, final_model, config_final, h >>

Next ==
    \/ DetermineTrainingType
    \/ DetermineRescaleType
    \/ DetermineStatistics
    \/ CollectForceRms
    \/ CollectEnergy
    \/ CollectPerSpecies
    \/ ResolveGlobal
    \/ DeterminePerSpecies
    \/ BuildModel
    \/ AssembleModel
    \/ RecordConfig
    \/ EquivarianceTest
    \/ Train

Spec == Init /\ [][Next]_vars

\* --------------------------------------------------- the helpers, on their own
HelperKeys == {"enable", "scales", "shifts", "sigma"}

HelperValues == { Absent, PyBool(TRUE), PyTensor(VecEven) }

HelperDefaults == { PyNone, PyBool(FALSE) }

SetValueVariables ==
    { PyNone, PyFloat(q5e7), PyFloat(q2), PyInt(1), PyTensor(VecEven),
      PyStr(dataset_energy_mean), PyStr(dataset_force_rms),
      PyStr(datasetXenergy_std) }

SetValueDicts ==
    { EmptyDict,
      DictSet(EmptyDict, dataset_force_rms, PyTensor(<<q2_5>>)),
      DictSet(DictSet(EmptyDict, dataset_energy_mean, PyTensor(<<Rat(-3, 1)>>)),
              dataset_energy_std, PyTensor(<<q2>>)) }

InitHelpers ==
    /\ \E key \in HelperKeys, other \in HelperKeys \ {"enable"},
          v1 \in HelperValues, v2 \in HelperValues,
          default \in HelperDefaults,
          variable \in SetValueVariables, value_dict \in SetValueDicts :
          /\ other # key
          /\ h = [ op |-> "input",
                   config |-> MkConfig(<<
                       <<PreferredKey(key), v1>>,
                       <<FallbackKey(key), v2>>,
                       <<PreferredKey(other), PyFloat(q1)>>,
                       <<FallbackKey(other), PyFloat(q2)>>,
                       <<"global_rescale_scale", PyFloat(q2)>> >>),
                   key |-> key,
                   default |-> default,
                   variable |-> variable,
                   value_dict |-> value_dict,
                   st |-> "",
                   ret |-> Unset,
                   after |-> EmptyDict ]
    /\ raw = EmptyDict
    /\ config = EmptyDict
    /\ loss_coeffs = {}
    /\ pc = "idle"
    /\ err = "none"
    /\ err_name = ""
    /\ force_training = FALSE
    /\ global_shift = Unset
    /\ global_scale = Unset
    /\ per_species_scale_shift = Unset
    /\ scales = Unset
    /\ shifts = Unset
    /\ sigma = Unset
    /\ keys = {}
    /\ dataset_statistics = EmptyDict
    /\ calls = [f \in Families |-> 0]
    /\ returned = EmptyDict
    /\ core_model = Unset
    /\ final_model = Unset
    /\ config_final = Unset
    /\ events = <<>>

fresh_start_vars ==
    << raw, config, loss_coeffs, pc, err, err_name, locals, keys, stats,
       outputs >>

\* a call of pop_per_species(config, key, default)
CallPopPerSpecies ==
    /\ h.op = "input"
    /\ h' = [h EXCEPT !.op = "pop_per_species",
                      !.st = "ok",
                      !.ret = pop_per_species(h.config, h.key, h.default),
                      !.after = pop_per_species_config(h.config, h.key)]
    /\ UNCHANGED fresh_start_vars

\* a call of get_per_species(config, key, default)
CallGetPerSpecies ==
    /\ h.op = "input"
    /\ h' = [h EXCEPT !.op = "get_per_species",
                      !.st = "ok",
                      !.ret = get_per_species(h.config, h.key, h.default),
                      !.after = h.config]
    /\ UNCHANGED fresh_start_vars

\* a call of set_value(variable, variable_name, value_dict)
CallSetValue ==
    /\ h.op = "input"
    /\ LET r == set_value(h.variable, "global_scale", h.value_dict)
       IN  h' = [h EXCEPT !.op = "set_value",
                          !.st = r.st,
                          !.ret = r.val,
                          !.after = h.config]
    /\ UNCHANGED fresh_start_vars

NextHelpers ==
    \/ CallPopPerSpecies
    \/ CallGetPerSpecies
    \/ CallSetValue

SpecHelpers == InitHelpers /\ [][NextHelpers]_vars

\* ------------------------------------------------------------------ claims
\* The four slots as the configuration given to fresh_start determines them.
SlotShift ==
    IF "global_rescale_shift" \in DOMAIN raw THEN raw["global_rescale_shift"]
    ELSE PyStr(dataset_energy_mean)

SlotScale ==
    IF "global_rescale_scale" \in DOMAIN raw THEN raw["global_rescale_scale"]
    ELSE IF "forces" \in loss_coeffs THEN PyStr(dataset_force_rms)
    ELSE PyStr(dataset_energy_std)

RawPerSpecies(key, default) ==
    IF ("PerSpeciesScaleShift_" \o key) \in DOMAIN raw
    THEN raw["PerSpeciesScaleShift_" \o key]
    ELSE IF ("per_species_scale_shift_" \o key) \in DOMAIN raw
    THEN raw["per_species_scale_shift_" \o key]
    ELSE default

SlotScales == RawPerSpecies("scales", PyNone)

SlotShifts == RawPerSpecies("shifts", PyNone)

Slots == {SlotShift, SlotScale, SlotScales, SlotShifts}

Enabled == RawPerSpecies("enable", PyBool(FALSE)) = PyBool(TRUE)

Terminated == pc \in {"raised", "done"}

NoCalls == \A f \in Families : calls[f] = 0

\* the placeholders of each statistic family
Placeholders(f) ==
    CASE f = "force_rms" -> {PyStr(dataset_force_rms)}
      [] f = "energy" -> {PyStr(dataset_energy_mean), PyStr(dataset_energy_std)}
      [] f = "per_species" -> {PyStr(dataset_per_species_energy_mean),
                               PyStr(dataset_per_species_energy_std)}

FamilyOf(v) == CHOOSE f \in Families : v \in Placeholders(f)

Recognized(v) == \E f \in Families : v \in Placeholders(f)

Assembled == pc \in {"record", "equivariance", "train", "done"}

\* C1, as stated: whenever the global shift is non-null (default included)
\* and per-species scale/shift is enabled, a finished run ended in the
\* conflict error, whatever the other fields hold, with no statistics call.
C1_ConflictWhateverTheOtherFields ==
    (SlotShift # PyNone /\ Enabled /\ Terminated)
        => (err = "conflict" /\ NoCalls)

\* C1, amended: when config.loss_coeffs names only forces and total_energy,
\* a non-null global shift together with enabled per-species scale/shift
\* ends the run in the conflict error before any statistics call: the run
\* never gets past the rescale-type step.
C1_ConflictWhenTrainingSupported ==
    (SlotShift # PyNone /\ Enabled /\ loss_coeffs \subseteq {"forces", "total_energy"})
        => /\ pc \in {"training_type", "rescale_type", "raised"}
           /\ pc = "raised" => err = "conflict"
           /\ NoCalls

C1_Witness ==
    /\ pc = "raised" /\ err = "conflict"
    /\ "global_rescale_shift" \notin DOMAIN raw
    /\ Enabled
    /\ SlotScale = PyFloat(q2)

\* C2: in an assembled model, a global slot that held a recognized
\* placeholder carries exactly the value the statistics call returned for
\* it, that family was computed by exactly one call, and two global slots
\* with the same placeholder carry the same value.
C2_PlaceholderResolvesToReturnedValue ==
    Assembled =>
        /\ Recognized(SlotScale) =>
              /\ SlotScale.s \in DOMAIN returned
              /\ final_model.scale_by = returned[SlotScale.s]
              /\ calls[FamilyOf(SlotScale)] = 1
        /\ Recognized(SlotShift) =>
              /\ SlotShift.s \in DOMAIN returned
              /\ final_model.shift_by = returned[SlotShift.s]
              /\ calls[FamilyOf(SlotShift)] = 1
        /\ (Recognized(SlotScale) /\ SlotScale = SlotShift) =>
              final_model.scale_by = final_model.shift_by

C2_Witness ==
    /\ pc = "done"
    /\ SlotScale = PyStr(dataset_energy_std)
    /\ SlotShift = PyStr(dataset_energy_mean)
    /\ final_model.scale_by = PyTensor(<<q2>>)
    /\ final_model.shift_by = PyTensor(<<Rat(-3, 1)>>)
    /\ "forces" \in final_model.scale_keys

\* C3: every family is computed at most once, and a family no slot holds a
\* placeholder of is never computed.
C3_OnlyReferencedFamiliesComputed ==
    \A f \in Families :
        /\ calls[f] <= 1
        /\ (Slots \cap Placeholders(f) = {}) => calls[f] = 0

\* C4: set_value returns every literal numeric value (integer, float or
\* tensor) unchanged, whatever the statistics mapping, and raises nothing.
C4_LiteralPassThrough ==
    (h.op = "set_value" /\ h.variable.t \in {"int", "float", "tensor"})
        => (h.st = "ok" /\ h.ret = h.variable)

\* C5: once the global scale is resolved and the run goes on, a numeric
\* global scale is never below RESCALE_THRESHOLD, so no assembled model
\* carries one.
C5_NoDegenerateGlobalScaleInUse ==
    (pc \in {"per_species", "build", "assemble", "record", "equivariance",
             "train", "done"}
       /\ global_scale.t \in {"float", "tensor"})
        => ~Lt(MinOf(global_scale.n), RESCALE_THRESHOLD)

\* the vector stored is v / gs: entry by entry (broadcasting one-entry
\* operands), stored * gs = v
IsQuotient(stored, v, gs) ==
    /\ stored.t \in {"float", "tensor"}
    /\ \A i \in 1..Len(stored.n) :
          LET q == stored.n[i]
              a == IF Len(v.n) = 1 THEN v.n[1] ELSE v.n[i]
              b == IF Len(gs.n) = 1 THEN gs.n[1] ELSE gs.n[i]
          IN  q[1] * b[1] * a[2] = a[1] * q[2] * b[2]
    /\ Len(stored.n) >= Len(v.n)

\* what a slot resolves to: the returned statistic for a placeholder the
\* statistics mapping holds, the literal otherwise
ResolvedSlot(v) ==
    IF v.t = "str" /\ v.s \in DOMAIN returned THEN returned[v.s] ELSE v

PastPerSpecies ==
    pc \in {"build", "assemble", "record", "equivariance", "train", "done"}

\* C6: with per-species normalization enabled and validation passed, the
\* stored PerSpeciesScaleShift_scales / _shifts are the resolved vectors
\* divided by gs (the global scale, or 1 when it is None; None stays None),
\* and the threshold was applied to the resolved scales themselves, whose
\* minimum is therefore not below it.
C6_StoredRelativeToGlobalScale ==
    (PastPerSpecies /\ Enabled) =>
        LET gs == IF global_scale = PyNone THEN PyFloat(q1) ELSE global_scale
            sc == ResolvedSlot(SlotScales)
            sh == ResolvedSlot(SlotShifts)
        IN  /\ "PerSpeciesScaleShift_scales" \in DOMAIN config
            /\ "PerSpeciesScaleShift_shifts" \in DOMAIN config
            /\ IF sc = PyNone
               THEN config["PerSpeciesScaleShift_scales"] = PyNone
               ELSE /\ IsQuotient(config["PerSpeciesScaleShift_scales"], sc, gs)
                    /\ ~Lt(MinOf(sc.n), RESCALE_THRESHOLD)
            /\ IF sh = PyNone
               THEN config["PerSpeciesScaleShift_shifts"] = PyNone
               ELSE IsQuotient(config["PerSpeciesScaleShift_shifts"], sh, gs)

\* a run that passed with scales at the threshold whose stored relative
\* scales are below it
C6_Witness ==
    /\ pc = "done"
    /\ Enabled
    /\ global_scale = PyFloat(q2)
    /\ SlotScales = PyTensor(VecEdge)
    /\ config["PerSpeciesScaleShift_scales"] =
           PyTensor([i \in 1..NumTypes |-> Rat(1, 2000000)])
    /\ SlotShifts = PyTensor(VecMean)

\* does a slot value request the force_rms statistic
RequestsForceRms(v) == v = PyStr(dataset_force_rms)

\* C7: if a slot requests force_rms without force training the run fails
\* before any statistics call (with the force_rms validation error unless
\* an earlier check already failed), and the default of an absent
\* global_rescale_scale never causes that error.
C7_ForceRmsNeedsForceTraining ==
    /\ ((\E v \in Slots : RequestsForceRms(v)) /\ "forces" \notin loss_coeffs)
          => /\ pc \in {"training_type", "rescale_type", "keys", "raised"}
             /\ NoCalls
             /\ pc = "raised" =>
                   err = IF ~(loss_coeffs \subseteq {"forces", "total_energy"})
                         THEN "NotImplementedError"
                         ELSE IF SlotShift # PyNone /\ Enabled THEN "conflict"
                         ELSE "force_rms"
    /\ err = "force_rms" =>
          \/ ("global_rescale_scale" \in DOMAIN raw /\ RequestsForceRms(SlotScale))
          \/ \E v \in {SlotShift, SlotScales, SlotShifts} : RequestsForceRms(v)

C7_Witness ==
    /\ pc = "raised" /\ err = "force_rms"
    /\ SlotScale = PyStr(dataset_force_rms)
    /\ SlotShift = PyNone
    /\ loss_coeffs = {"total_energy"}

PerSpeciesKeys ==
    { "PerSpeciesScaleShift_scales", "PerSpeciesScaleShift_shifts",
      "per_species_scale_shift_scales", "per_species_scale_shift_shifts" }

\* C8: the configuration given to the model builder and the one written to
\* config_final.yaml hold no per-species scales / shifts key of either
\* spelling when per-species normalization is off, and both derived keys
\* (and no other-spelling one) when it is on.
C8_PerSpeciesKeysInFinalConfig ==
    /\ pc \in {"assemble", "record", "equivariance", "train", "done"} =>
          IF Enabled
          THEN DOMAIN core_model.kwargs \cap PerSpeciesKeys =
                   {"PerSpeciesScaleShift_scales", "PerSpeciesScaleShift_shifts"}
          ELSE DOMAIN core_model.kwargs \cap PerSpeciesKeys = {}
    /\ pc \in {"equivariance", "train", "done"} =>
          IF Enabled
          THEN DOMAIN config_final \cap PerSpeciesKeys =
                   {"PerSpeciesScaleShift_scales", "PerSpeciesScaleShift_shifts"}
          ELSE DOMAIN config_final \cap PerSpeciesKeys = {}

C8_Witness ==
    /\ pc = "done"
    /\ ~Enabled
    /\ "PerSpeciesScaleShift_scales" \in DOMAIN raw
    /\ "per_species_scale_shift_scales" \in DOMAIN raw
    /\ "per_species_scale_shift_shifts" \in DOMAIN raw
    /\ DOMAIN config_final \cap PerSpeciesKeys = {}

\* C9: pop_per_species and get_per_species return the value under
\* PerSpeciesScaleShift_<key> when present, else the one under
\* per_species_scale_shift_<key>, else the default; pop removes both
\* spellings of that key and nothing else, get changes nothing.
C9_DualKeyPrecedence ==
    h.op \in {"pop_per_species", "get_per_species"} =>
        LET p == "PerSpeciesScaleShift_" \o h.key
            f == "per_species_scale_shift_" \o h.key
        IN  /\ h.ret = IF p \in DOMAIN h.config THEN h.config[p]
                       ELSE IF f \in DOMAIN h.config THEN h.config[f]
                       ELSE h.default
            /\ h.op = "pop_per_species" =>
                  /\ DOMAIN h.after = (DOMAIN h.config) \ {p, f}
                  /\ \A k \in DOMAIN h.after : h.after[k] = h.config[k]
            /\ h.op = "get_per_species" => h.after = h.config

C9_Witness ==
    /\ h.op = "pop_per_species"
    /\ h.key = "scales"
    /\ {"PerSpeciesScaleShift_scales", "per_species_scale_shift_scales"}
           \subseteq DOMAIN h.config
    /\ h.config["PerSpeciesScaleShift_scales"] = PyBool(TRUE)
    /\ h.config["per_species_scale_shift_scales"] = PyTensor(VecEven)
    /\ h.ret = PyBool(TRUE)
    /\ "per_species_scale_shift_scales" \notin DOMAIN h.after

IsPrefix(xs, ys) == Len(xs) <= Len(ys) /\ xs = SubSeq(ys, 1, Len(xs))

CalibrationErrors ==
    {"conflict", "force_rms", "invalid", "degenerate_global", "degenerate_atomic"}

\* C10: the model is built, then assembled, then the configuration is
\* written, then training starts, in that order and each at most once; a run
\* ended by a calibration error has done none of them and stays ended.
C10_CalibrationGatesTraining ==
    /\ IsPrefix(events, <<"build", "assemble", "persist", "train">>)
    /\ pc = "done" => events = <<"build", "assemble", "persist", "train">>
    /\ err \in CalibrationErrors =>
          /\ pc = "raised"
          /\ events = <<>>
          /\ core_model = Unset /\ final_model = Unset /\ config_final = Unset

C10_Witness ==
    /\ pc = "done"
    /\ events = <<"build", "assemble", "persist", "train">>
    /\ config_final = config
    /\ calls["energy"] = 1

====
